---- MODULE Spec2Model ----
(***************************************************************************)
(* Asset loading in gpui: the type-erased AssetCache (asset_cache.rs), the *)
(* two producers built on it, RasterOrVector::load and Vector::load        *)
(* (elements/img.rs), and the older ImageCache (image_cache.rs); next to   *)
(* them ImageSource::data and ObjectFit::get_bounds (elements/img.rs) and  *)
(* SvgRenderer::render (svg_renderer.rs).                                  *)
(*                                                                         *)
(* A slot is one caller-side request.  A slot runs one operation at a time *)
(* (a producer's load future, a remove_from_cache call, an ImageCache::get *)
(* call) and can be reused once the operation has returned.  Every map     *)
(* access is two steps, taking the mutex and then the map operation that   *)
(* releases it, so that the states in which the mutex is held are visible. *)
(***************************************************************************)
EXTENDS Integers, FiniteSets, Sequences, TLC

\* ------------------------------------------------------------------ bounds
NumSlots == 2          \* concurrent requests
HashMod  == 2          \* size of the hash space standing for u64
MaxDim   == 2          \* largest target width in device pixels
MaxTasks == 2          \* background tasks ImageCache may have spawned
MaxFit   == 3          \* largest small length handed to get_bounds

Slots   == 1..NumSlots
TaskIds == 1..MaxTasks

\* ------------------------------------------------------------- key model
\* UriOrPath: the derived Hash feeds the discriminant, then the payload.
UriA  == [tag |-> "Uri",  name |-> 1]
UriB  == [tag |-> "Uri",  name |-> 2]
PathA == [tag |-> "Path", name |-> 3]
Sources == {UriA, UriB, PathA}

Discriminant(s) == IF s.tag = "Uri" THEN 0 ELSE 1

\* One write of a hasher: the running state absorbs a word.
Mix(h, x) == (3 * h + x + 1) % HashMod

\* a hash that feeds the discriminant and leaves out the payload
HashSourceTagOnly(s) == Mix(0, Discriminant(s))
\* hash(&source) with DefaultHasher, for a UriOrPath.
HashSource(s) == Mix(Mix(0, Discriminant(s)), s.name)

Size(w, h) == [width |-> w, height |-> h]
Sizes == {Size(w, 1) : w \in 0..MaxDim} \cup {Size(1, 0)}

\* VectorKey { data, id, size }; id is the fingerprint hash(&source) of the
\* source the tree was parsed from.
VectorKey(s, z) == [data |-> s, id |-> HashSource(s), size |-> z]
\* The tree parsed from source s after the content behind s has changed.
Revised(s) == [tag |-> s.tag, name |-> s.name, rev |-> 2]
\* The trees that can come with the fingerprint of source s.
TreesOf(s) == {s, Revised(s)}
\* The key of tree d, parsed from source s, at size z.
TreeKey(s, d, z) == [data |-> d, id |-> HashSource(s), size |-> z]
VectorKeys == UNION {{TreeKey(s, d, z) : d \in TreesOf(s), z \in Sizes} : s \in Sources}

\* a hash that also absorbs the tree
HashVectorKeyWithTree(k) == Mix(Mix(Mix(Mix(0, k.id), k.size.width), k.size.height), IF "rev" \in DOMAIN k.data THEN 1 ELSE 0)
\* impl Hash for VectorKey: id, then size; the tree is not hashed.
HashVectorKey(k) == Mix(Mix(Mix(0, k.id), k.size.width), k.size.height)

\* The hash AssetCache::get / insert compute for a source of asset kind A.
HashOf(kind, source) == IF kind = "RasterOrVector" THEN HashSource(source) ELSE HashVectorKey(source)

\* The map key ignoring the kind: two kinds share a slot when hashes agree.
CacheKeyNoKind(kind, source) == <<"RasterOrVector", HashOf(kind, source)>>
\* (TypeId::of::<A>(), hash)
CacheKey(kind, source) == <<kind, HashOf(kind, source)>>

Kinds == {"RasterOrVector", "Vector"}
SourcesOf(kind) == IF kind = "RasterOrVector" THEN Sources ELSE VectorKeys

\* ------------------------------------------------------------ HashMap ops
NoValue == [none |-> TRUE]

MapGet(m, k) == IF k \in DOMAIN m THEN m[k] ELSE NoValue
\* an insert that keeps an entry already present (entry().or_insert)
MapInsertKeepFirst(m, k, v) == IF k \in DOMAIN m THEN m ELSE [x \in DOMAIN m \cup {k} |-> IF x = k THEN v ELSE m[x]]
\* an insert into a cache of capacity one: every other entry is evicted
MapInsertEvicting(m, k, v) == [x \in {k} |-> v]
\* HashMap::insert
MapInsert(m, k, v) == [x \in DOMAIN m \cup {k} |-> IF x = k THEN v ELSE m[x]]
\* a removal that reads the entry and leaves it in place
MapRemoveNothing(m, k) == m
\* HashMap::remove
MapRemove(m, k) == [x \in DOMAIN m \ {k} |-> m[x]]
EmptyMap == [x \in {} |-> NoValue]

\* ---------------------------------------------------------------- values
Ok(v)  == [ok |-> TRUE, val |-> v]
Err(e) == [ok |-> FALSE, err |-> e]

\* Self::Raster(Arc::new(ImageData::new(data))), decoded from the bytes of s
Raster(s) == [kind |-> "RasterOrVector", variant |-> "Raster", content |-> s]
\* Self::Vector { data: Arc::new(tree), id: hash(&source) }
VectorTree(s) == [kind |-> "RasterOrVector", variant |-> "Vector", data |-> s, id |-> HashSource(s)]
\* Vector::Output: Arc<ImageData> rasterized from key.data at key.size.
Pixels(k) == [kind |-> "Vector", variant |-> "Image", tree |-> k.data, size |-> k.size]

\* What the world can hand back for a source.
Bytes == {"png", "truncated_png", "svg", "junk"}
Statuses == {200, 404, 500}
\* StatusCode::is_success
IsSuccess(st) == st \in 200..299
\* a check that lets client errors through and rejects server errors only
StatusRejectedOnlyServerErrors(st) == st >= 500
\* if !response.status().is_success() { return Err(BadStatus { .. }) }
StatusRejected(st) == ~IsSuccess(st)
\* The statuses a source can answer with; a file read has none (0).
StatusesOf(source) == IF source.tag = "Uri" THEN Statuses ELSE {0}
\* String::from_utf8_lossy(&body): invalid sequences become U+FFFD.
Utf8Lossy(b) == IF b \in {"png", "truncated_png", "junk"} THEN "lossy" ELSE "text"
\* ImageCacheError::BadStatus { status, body: from_utf8_lossy(&body) }
BadStatus(st, b) == [type |-> "BadStatus", status |-> st, body |-> Utf8Lossy(b)]

\* image::guess_format recognises a raster signature.
GuessFormatOk(b) == b \in {"png", "truncated_png"}
\* image::load_from_memory_with_format
RasterDecodeOk(b) == b = "png"
\* resvg::usvg::Tree::from_data
SvgParseOk(b) == b = "svg"

VARIABLES
    assets,     \* AssetCache.assets: (TypeId, u64) -> entry
    lock,       \* holder of the AssetCache mutex, 0 when free
    images,     \* ImageCache.images: UriOrPath -> id of the shared task
    imgLock,    \* holder of the ImageCache mutex, 0 when free
    tasks,      \* the background tasks ImageCache::get has spawned
    op,         \* per slot: the operation it runs
    pc,         \* per slot: where it is in that operation
    arg,        \* per slot: the source it was called with
    bytes,      \* per slot: the bytes acquired, "" before
    status,     \* per slot: the status of the response read in full, 0 before
    out,        \* per slot: what the operation resolved to
    hit,        \* per slot: whether the cache probe found an entry
    work        \* per slot: the stages of work the request has run

vars == <<assets, lock, images, imgLock, tasks, op, pc, arg, bytes, status, out, hit, work>>
imgVars == <<images, imgLock, tasks>>

NoArg == [none |-> TRUE]

NoTask == [st |-> "unused", src |-> [none |-> TRUE], out |-> [none |-> TRUE], status |-> 0, body |-> "", work |-> {}]

Init ==
    /\ assets = EmptyMap
    /\ lock = 0
    /\ images = EmptyMap
    /\ imgLock = 0
    /\ tasks = [t \in TaskIds |-> NoTask]
    /\ op = [r \in Slots |-> "none"]
    /\ pc = [r \in Slots |-> "idle"]
    /\ arg = [r \in Slots |-> NoArg]
    /\ bytes = [r \in Slots |-> ""]
    /\ status = [r \in Slots |-> 0]
    /\ out = [r \in Slots |-> NoValue]
    /\ hit = [r \in Slots |-> FALSE]
    /\ work = [r \in Slots |-> {}]

KindOf(o) == IF o \in {"rov_load", "rov_remove"} THEN "RasterOrVector" ELSE "Vector"

\* ----------------------------------------------------- producers: common
\* A caller starts A::load(source, cx): the future begins at the probe.
StartLoad(r, kind, source) ==
    /\ pc[r] = "idle"
    /\ source \in SourcesOf(kind)
    /\ op' = [op EXCEPT ![r] = IF kind = "RasterOrVector" THEN "rov_load" ELSE "vec_load"]
    /\ pc' = [pc EXCEPT ![r] = "probe"]
    /\ arg' = [arg EXCEPT ![r] = source]
    /\ UNCHANGED <<imgVars, assets, lock, bytes, out, hit, work, status>>

\* asset_cache.get::<Self>(&source): self.assets.lock()
ProbeLock(r) ==
    /\ pc[r] = "probe"
    /\ lock = 0
    /\ lock' = r
    /\ pc' = [pc EXCEPT ![r] = "probing"]
    /\ UNCHANGED <<imgVars, assets, op, arg, bytes, out, hit, work, status>>

\* pc after a probe that found nothing
AfterMiss(o) == IF o = "rov_load" THEN "fetch" ELSE "rasterize"

\* a hit that falls through to the work of a miss (the return is missing)
AfterHitFallThrough(o) == AfterMiss(o)
\* return asset.clone()
AfterHit(o) == "done"

\* a lookup that takes the entry out of the map (remove in place of get)
CacheAfterGetTaken(m, k) == MapRemove(m, k)
\* HashMap::get borrows the map: a lookup leaves it as it was
CacheAfterGet(m, k) == m

\* a guard kept alive across the miss path
GuardAfterProbeKept(r, found) == IF found THEN 0 ELSE r
\* self.assets.lock() is a temporary: the guard drops with the statement
GuardAfterProbe(r, found) == 0

\* .get(&(TypeId::of::<A>(), hash)); Some(asset) => return asset.clone()
Probe(r) ==
    /\ pc[r] = "probing"
    /\ lock = r
    /\ LET key == CacheKey(KindOf(op[r]), arg[r])
           found == MapGet(assets, key)
       IN /\ IF found # NoValue
             THEN /\ out' = [out EXCEPT ![r] = found]
                  /\ hit' = [hit EXCEPT ![r] = TRUE]
                  /\ pc' = [pc EXCEPT ![r] = AfterHit(op[r])]
             ELSE /\ pc' = [pc EXCEPT ![r] = AfterMiss(op[r])]
                  /\ UNCHANGED <<out, hit>>
          /\ assets' = CacheAfterGet(assets, key)
          /\ lock' = GuardAfterProbe(r, found # NoValue)
    /\ UNCHANGED <<imgVars, op, arg, bytes, work, status>>

\* asset_cache.insert::<Self>(..): self.assets.lock()
InsertLock(r) ==
    /\ pc[r] = "insert"
    /\ lock = 0
    /\ lock' = r
    /\ pc' = [pc EXCEPT ![r] = "inserting"]
    /\ UNCHANGED <<imgVars, assets, op, arg, bytes, out, hit, work, status>>

\* .insert((TypeId::of::<A>(), hash), task); then the future returns.
Insert(r) ==
    /\ pc[r] = "inserting"
    /\ lock = r
    /\ assets' = MapInsert(assets, CacheKey(KindOf(op[r]), arg[r]), out[r])
    /\ lock' = 0
    /\ pc' = [pc EXCEPT ![r] = "done"]
    /\ work' = [work EXCEPT ![r] = @ \cup {"publish"}]
    /\ UNCHANGED <<imgVars, op, arg, bytes, out, hit, status>>

\* ------------------------------------------------- RasterOrVector::load
\* The errors that end the byte acquisition before a body is there:
\* fs::read(path)?, client.get(uri).await?, read_to_end(..).await?
FetchErrors(source) ==
    IF source.tag = "Path"
    THEN {[type |-> "Io"]}
    ELSE {[type |-> "Client"], [type |-> "Io"]}

\* A `?` of the byte acquisition leaves the future without an insert.
FetchFail(r) ==
    /\ pc[r] = "fetch"
    /\ \E e \in FetchErrors(arg[r]) : out' = [out EXCEPT ![r] = Err(e)]
    /\ pc' = [pc EXCEPT ![r] = "done"]
    /\ work' = [work EXCEPT ![r] = @ \cup {"fetch"}]
    /\ UNCHANGED <<imgVars, assets, lock, op, arg, bytes, hit, status>>

\* The stages the decode step runs on bytes b.
DecodeStages(b) == IF GuessFormatOk(b) THEN {"sniff", "raster_decode"} ELSE {"sniff", "svg_parse"}

\* a decode that falls back to the vector parse when the raster decode fails
DecodeResultVectorFallback(s, b) ==
    IF GuessFormatOk(b) /\ RasterDecodeOk(b) THEN Ok(Raster(s))
    ELSE IF SvgParseOk(b) THEN Ok(VectorTree(s)) ELSE Err([type |-> "Usvg"])
\* What the decode step yields for source s and bytes b.
DecodeResult(s, b) ==
    IF GuessFormatOk(b)
    THEN IF RasterDecodeOk(b) THEN Ok(Raster(s)) ELSE Err([type |-> "Image"])
    ELSE IF SvgParseOk(b) THEN Ok(VectorTree(s)) ELSE Err([type |-> "Usvg"])

\* The bytes are there (a file's, or a response's read to its end).  A
\* response of a rejected status returns BadStatus; otherwise
\* image::guess_format, then load_from_memory_with_format(..)? or
\* Tree::from_data(..)?: an error returns at once, a success goes on to the
\* insert.
FetchDecode(r) ==
    /\ pc[r] = "fetch"
    /\ \E st \in StatusesOf(arg[r]), b \in Bytes :
         LET bad == arg[r].tag = "Uri" /\ StatusRejected(st)
             res == IF bad THEN Err(BadStatus(st, b)) ELSE DecodeResult(arg[r], b)
         IN /\ bytes' = [bytes EXCEPT ![r] = b]
            /\ status' = [status EXCEPT ![r] = st]
            /\ out' = [out EXCEPT ![r] = res]
            /\ pc' = [pc EXCEPT ![r] = IF res.ok THEN "insert" ELSE "done"]
            /\ work' = [work EXCEPT ![r] = @ \cup {"fetch"} \cup (IF bad THEN {} ELSE DecodeStages(b))]
    /\ UNCHANGED <<imgVars, assets, lock, op, arg, hit>>

\* ---------------------------------------------------------- Vector::load
\* an allocation that never fails: a zero dimension gives an empty surface
PixmapNewOkAlways(size) == TRUE
\* resvg::tiny_skia::Pixmap::new(w, h) is None for a zero dimension.
PixmapNewOk(size) == size.width > 0 /\ size.height > 0

\* Pixmap::new(..).unwrap(), render, encode_png, decode: a failed
\* allocation panics the task, otherwise the pixels go on to the insert.
Rasterize(r) ==
    /\ pc[r] = "rasterize"
    /\ IF PixmapNewOk(arg[r].size)
       THEN /\ out' = [out EXCEPT ![r] = Pixels(arg[r])]
            /\ pc' = [pc EXCEPT ![r] = "insert"]
            /\ work' = [work EXCEPT ![r] = @ \cup {"rasterize"}]
       ELSE /\ pc' = [pc EXCEPT ![r] = "panicked"]
            /\ UNCHANGED <<out, work>>
    /\ UNCHANGED <<imgVars, assets, lock, op, arg, bytes, hit, status>>

\* ----------------------------------------------------- remove_from_cache
\* A::remove_from_cache(source, cx)
StartRemove(r, kind, source) ==
    /\ pc[r] = "idle"
    /\ source \in SourcesOf(kind)
    /\ op' = [op EXCEPT ![r] = IF kind = "RasterOrVector" THEN "rov_remove" ELSE "vec_remove"]
    /\ pc' = [pc EXCEPT ![r] = "remove"]
    /\ arg' = [arg EXCEPT ![r] = source]
    /\ UNCHANGED <<imgVars, assets, lock, bytes, out, hit, work, status>>

RemoveLock(r) ==
    /\ pc[r] = "remove"
    /\ lock = 0
    /\ lock' = r
    /\ pc' = [pc EXCEPT ![r] = "removing"]
    /\ UNCHANGED <<imgVars, assets, op, arg, bytes, out, hit, work, status>>

\* cx.asset_cache().remove::<Self>(source): the entry leaves the map and
\* its output is handed back.
Remove(r) ==
    /\ pc[r] = "removing"
    /\ lock = r
    /\ LET key == CacheKey(KindOf(op[r]), arg[r])
       IN /\ out' = [out EXCEPT ![r] = MapGet(assets, key)]
          /\ assets' = MapRemove(assets, key)
    /\ lock' = 0
    /\ pc' = [pc EXCEPT ![r] = "done"]
    /\ UNCHANGED <<imgVars, op, arg, bytes, hit, work, status>>

\* ------------------------------------------------------- ImageCache::get
Handle(t) == [task |-> t]

\* A caller enters ImageCache::get(uri_or_path, cx).
StartGet(r, source) ==
    /\ pc[r] = "idle"
    /\ op' = [op EXCEPT ![r] = "img_get"]
    /\ pc' = [pc EXCEPT ![r] = "img_lock"]
    /\ arg' = [arg EXCEPT ![r] = source]
    /\ UNCHANGED <<assets, lock, imgVars, bytes, out, hit, work, status>>

\* let mut images = self.images.lock();
ImgLock(r) ==
    /\ pc[r] = "img_lock"
    /\ imgLock = 0
    /\ imgLock' = r
    /\ pc' = [pc EXCEPT ![r] = "img_lookup"]
    /\ UNCHANGED <<assets, lock, images, tasks, op, arg, bytes, out, hit, work, status>>

FreeTasks == {t \in TaskIds : tasks[t].st = "unused"}

\* a lookup that treats a cached failure as a miss and fetches again
ImgCachedRetryOnError(m, s) == s \in DOMAIN m /\ ~(tasks[m[s]].st = "done" /\ ~tasks[m[s]].out.ok)
\* match images.get(&uri_or_path) { Some(future) => .. }
ImgCached(m, s) == s \in DOMAIN m

\* a guard dropped after the lookup and taken again for the insert
GuardAfterMissDropped(r) == 0
\* let mut images = self.images.lock(): the guard lives to the end of get
GuardAfterMiss(r) == r

\* Some(future) => future.clone(): the guard drops as get returns
\* None => spawn the future on the background executor, .shared()
ImgLookup(r) ==
    /\ pc[r] = "img_lookup"
    /\ imgLock = r
    /\ IF ImgCached(images, arg[r])
       THEN /\ out' = [out EXCEPT ![r] = Handle(images[arg[r]])]
            /\ hit' = [hit EXCEPT ![r] = TRUE]
            /\ pc' = [pc EXCEPT ![r] = "done"]
            /\ imgLock' = 0
            /\ UNCHANGED <<tasks, work>>
       ELSE /\ FreeTasks # {}
            /\ LET t == CHOOSE x \in FreeTasks : \A y \in FreeTasks : x <= y
               IN /\ tasks' = [tasks EXCEPT ![t] = [st |-> "running", src |-> arg[r], out |-> NoValue, status |-> 0, body |-> "", work |-> {}]]
                  /\ out' = [out EXCEPT ![r] = Handle(t)]
            /\ work' = [work EXCEPT ![r] = @ \cup {"spawn"}]
            /\ pc' = [pc EXCEPT ![r] = "img_insert"]
            /\ imgLock' = GuardAfterMiss(r)
            /\ UNCHANGED hit
    /\ UNCHANGED <<assets, lock, images, op, arg, bytes, status>>

\* an insert that is skipped, so that the map never holds the task
ImgStoreSkipped(m, s, t) == m
\* images.insert(uri_or_path, future.clone())
ImgStore(m, s, t) == MapInsert(m, s, t)

\* images.insert(..); future: the guard drops as get returns
ImgInsert(r) ==
    /\ pc[r] = "img_insert"
    /\ imgLock = r
    /\ images' = ImgStore(images, arg[r], out[r].task)
    /\ imgLock' = 0
    /\ pc' = [pc EXCEPT ![r] = "done"]
    /\ UNCHANGED <<assets, lock, tasks, op, arg, bytes, out, hit, work, status>>

\* The clones of task t's shared future that are alive: the map's and the
\* callers'.
Stored(t) == \E s \in DOMAIN images : images[s] = t
Holders(t) == {r \in Slots : out[r] = Handle(t)}
\* A Task whose last handle is dropped is cancelled: it runs no further.
Alive(t) == Stored(t) \/ Holders(t) # {}

\* ImageData::try_from_bytes(&body)
TryFromBytes(s, b) == IF GuessFormatOk(b) /\ RasterDecodeOk(b) THEN Ok([kind |-> "Image", content |-> s]) ELSE Err([type |-> "Image"])

\* The task's body ends before a body is there: fs::read(..)?,
\* client.get(..).await?, read_to_end(..).await?
TaskFail(t) ==
    /\ tasks[t].st = "running"
    /\ Alive(t)
    /\ \E e \in FetchErrors(tasks[t].src) :
          tasks' = [tasks EXCEPT ![t] = [@ EXCEPT !.st = "done", !.out = Err(e), !.work = {"fetch"}]]
    /\ UNCHANGED <<assets, lock, images, imgLock, op, pc, arg, bytes, out, hit, work, status>>

\* The task's body has the bytes: a response of a rejected status returns
\* BadStatus, anything else is decoded.
TaskDecode(t) ==
    /\ tasks[t].st = "running"
    /\ Alive(t)
    /\ \E st \in StatusesOf(tasks[t].src), b \in Bytes :
          LET bad == tasks[t].src.tag = "Uri" /\ StatusRejected(st)
          IN tasks' = [tasks EXCEPT ![t] = [@ EXCEPT !.st = "done",
                                                     !.status = st,
                                                     !.body = b,
                                                     !.out = IF bad THEN Err(BadStatus(st, b)) ELSE TryFromBytes(tasks[t].src, b),
                                                     !.work = IF bad THEN {"fetch"} ELSE {"fetch", "decode"}]]
    /\ UNCHANGED <<assets, lock, images, imgLock, op, pc, arg, bytes, out, hit, work, status>>

\* ------------------------------------------------- ObjectFit::get_bounds
\* Pixels wraps an f32.  Lengths are modelled as exact fractions num/den in
\* lowest terms with den > 0; the rounding of f32 is not modelled.
Abs(n) == IF n < 0 THEN -n ELSE n

RECURSIVE Gcd(_, _)
Gcd(a, b) == IF b = 0 THEN a ELSE Gcd(b, a % b)

Px(n, d) == LET g == Gcd(Abs(n), d) IN [num |-> n \div g, den |-> d \div g]
\* the result of a division by zero (an infinity or a NaN)
NotFinite == [num |-> 0, den |-> 0]

PxAdd(a, b) == Px(a.num * b.den + b.num * a.den, a.den * b.den)
PxSub(a, b) == Px(a.num * b.den - b.num * a.den, a.den * b.den)
PxMul(a, b) == Px(a.num * b.num, a.den * b.den)
PxDiv(a, b) ==
    IF b.num = 0 THEN NotFinite
    ELSE IF b.num > 0 THEN Px(a.num * b.den, a.den * b.num)
    ELSE Px(-(a.num * b.den), a.den * (-b.num))
PxGt(a, b) == a.num * b.den > b.num * a.den

\* Pixels::from(u32::from(dimension))
PxFromDevice(n) == Px(n, 1)

point(x, y) == [x |-> x, y |-> y]
size(w, h) == [width |-> w, height |-> h]
Bounds(o, s) == [origin |-> o, size |-> s]

\* a test that sends equal ratios to the first branch
BoxIsWiderOrEqual(bounds_ratio, image_ratio) == ~PxGt(image_ratio, bounds_ratio)
\* if bounds_ratio > image_ratio
BoxIsWider(bounds_ratio, image_ratio) == PxGt(bounds_ratio, image_ratio)

\* the image scaled to the height of the box
FitHeight(bounds, image_size) ==
    size(PxMul(image_size.width, PxDiv(bounds.size.height, image_size.height)), bounds.size.height)
\* the image scaled to the width of the box
FitWidth(bounds, image_size) ==
    size(bounds.size.width, PxMul(image_size.height, PxDiv(bounds.size.width, image_size.width)))

\* Contain with the two branches exchanged
ContainSizeSwapped(bounds, image_size, wider) == IF wider THEN FitWidth(bounds, image_size) ELSE FitHeight(bounds, image_size)
\* ObjectFit::Contain => let new_size = ..
ContainSize(bounds, image_size, wider) == IF wider THEN FitHeight(bounds, image_size) ELSE FitWidth(bounds, image_size)

\* Cover that leaves the rectangle at the origin of the box
CoverOriginAtBox(bounds, new_size) == bounds.origin
\* origin: point(bounds.origin.x + (bounds.size.width - new_size.width) / 2.0, ..)
Centered(bounds, new_size) ==
    point(PxAdd(bounds.origin.x, PxDiv(PxSub(bounds.size.width, new_size.width), Px(2, 1))),
          PxAdd(bounds.origin.y, PxDiv(PxSub(bounds.size.height, new_size.height), Px(2, 1))))

\* ObjectFit::Cover => let new_size = ..
CoverSize(bounds, image_size, wider) == IF wider THEN FitWidth(bounds, image_size) ELSE FitHeight(bounds, image_size)
\* ObjectFit::Cover => Bounds { origin: .., size: new_size }
CoverOrigin(bounds, new_size) == Centered(bounds, new_size)

\* None that centers the image in the box
NoneBoundsCentered(bounds, image_size) == Bounds(Centered(bounds, image_size), image_size)
\* ObjectFit::None => Bounds { origin: bounds.origin, size: image_size }
NoneBounds(bounds, image_size) == Bounds(bounds.origin, image_size)

Fits == {"Fill", "Contain", "Cover", "None"}

\* self.get_bounds(bounds, image_size), image_size in device pixels
get_bounds(fit, bounds, device_size) ==
    LET image_size == size(PxFromDevice(device_size.width), PxFromDevice(device_size.height))
        image_ratio == PxDiv(image_size.width, image_size.height)
        bounds_ratio == PxDiv(bounds.size.width, bounds.size.height)
        wider == BoxIsWider(bounds_ratio, image_ratio)
    IN CASE fit = "Fill" -> bounds
         [] fit = "Contain" -> LET new_size == ContainSize(bounds, image_size, wider)
                               IN Bounds(Centered(bounds, new_size), new_size)
         [] fit = "Cover" -> LET new_size == CoverSize(bounds, image_size, wider)
                             IN Bounds(CoverOrigin(bounds, new_size), new_size)
         [] fit = "None" -> NoneBounds(bounds, image_size)

\* The branch of the ratio test a call runs through.
FitBranch(fit, bounds, device_size) ==
    IF fit \in {"Contain", "Cover"}
    THEN LET image_ratio == PxDiv(PxFromDevice(device_size.width), PxFromDevice(device_size.height))
             bounds_ratio == PxDiv(bounds.size.width, bounds.size.height)
         IN IF BoxIsWider(bounds_ratio, image_ratio) THEN {"wider_branch"} ELSE {"else_branch"}
    ELSE {}

\* Painting runs on the main thread: its calls occupy the first slot.
MainThread == 1

\* The lengths a box is drawn from, and the device sizes of an image.
BoxLens == {Px(n, 1) : n \in 0..MaxFit} \cup {Px(3, 2), Px(100, 1), Px(200, 1)}
BoxOrigins == {point(Px(0, 1), Px(0, 1)), point(Px(7, 1), Px(-3, 1))}
Boxes == {Bounds(o, size(w, h)) : o \in BoxOrigins, w \in BoxLens, h \in BoxLens}
ImageSizes == {Size(w, h) : w \in (0..MaxFit) \cup {100}, h \in (0..MaxFit) \cup {100}}
\* Contain and Cover divide by every dimension: they are given positive ones.
Positive(bounds, device_size) ==
    /\ bounds.size.width.num > 0 /\ bounds.size.height.num > 0
    /\ device_size.width > 0 /\ device_size.height > 0

\* The paint code calls fit.get_bounds(bounds, image_size).
StartGetBounds(r, fit, bounds, device_size) ==
    /\ pc[r] = "idle"
    /\ fit \in {"Contain", "Cover"} => Positive(bounds, device_size)
    /\ op' = [op EXCEPT ![r] = "get_bounds"]
    /\ pc' = [pc EXCEPT ![r] = "fit"]
    /\ arg' = [arg EXCEPT ![r] = [fit |-> fit, bounds |-> bounds, image_size |-> device_size]]
    /\ UNCHANGED <<imgVars, assets, lock, bytes, out, hit, work, status>>

GetBounds(r) ==
    /\ pc[r] = "fit"
    /\ out' = [out EXCEPT ![r] = get_bounds(arg[r].fit, arg[r].bounds, arg[r].image_size)]
    /\ work' = [work EXCEPT ![r] = FitBranch(arg[r].fit, arg[r].bounds, arg[r].image_size)]
    /\ pc' = [pc EXCEPT ![r] = "done"]
    /\ UNCHANGED <<imgVars, assets, lock, op, arg, bytes, hit, status>>

\* --------------------------------------------------- SvgRenderer::render
\* RenderSvgParams { path, size }
SvgPaths == {"icons/a.svg", "icons/b.svg"}
RenderSvgParams(path, z) == [path |-> path, size |-> z]
\* The intrinsic sizes of the trees a document can parse to.
TreeSizes == {Size(1, 1), Size(2, 1)}

\* IsZero for Size<DevicePixels>: zero in either dimension.
IsZero(z) == z.width = 0 \/ z.height = 0

\* a check whose error is not returned: the call goes on to the load
AfterZeroCheckFallThrough(zero) == "svg_load"
\* if params.size.is_zero() { return Err(..) }
AfterZeroCheck(zero) == IF zero THEN "done" ELSE "svg_load"

\* A caller enters SvgRenderer::render(&params).
StartRender(r, params) ==
    /\ pc[r] = "idle"
    /\ op' = [op EXCEPT ![r] = "svg_render"]
    /\ pc' = [pc EXCEPT ![r] = "svg_check"]
    /\ arg' = [arg EXCEPT ![r] = params]
    /\ UNCHANGED <<imgVars, assets, lock, bytes, out, hit, work, status>>

\* if params.size.is_zero() { return Err(anyhow!("can't render at a zero size")); }
SvgCheck(r) ==
    /\ pc[r] = "svg_check"
    /\ pc' = [pc EXCEPT ![r] = AfterZeroCheck(IsZero(arg[r].size))]
    /\ out' = [out EXCEPT ![r] = IF IsZero(arg[r].size) THEN Err([type |-> "ZeroSize"]) ELSE @]
    /\ UNCHANGED <<imgVars, assets, lock, op, arg, bytes, hit, work, status>>

\* let bytes = self.asset_source.load(&params.path)?;
SvgLoad(r) ==
    /\ pc[r] = "svg_load"
    /\ \/ /\ out' = [out EXCEPT ![r] = Err([type |-> "AssetSource"])]
          /\ pc' = [pc EXCEPT ![r] = "done"]
          /\ UNCHANGED bytes
       \/ \E b \in Bytes :
             /\ bytes' = [bytes EXCEPT ![r] = b]
             /\ pc' = [pc EXCEPT ![r] = "svg_tree"]
             /\ UNCHANGED out
    /\ work' = [work EXCEPT ![r] = @ \cup {"load"}]
    /\ UNCHANGED <<imgVars, assets, lock, op, arg, hit, status>>

\* let tree = self.tree(&bytes)?;
SvgTree(r) ==
    /\ pc[r] = "svg_tree"
    /\ IF SvgParseOk(bytes[r])
       THEN /\ \E ts \in TreeSizes : out' = [out EXCEPT ![r] = [tree |-> ts]]
            /\ pc' = [pc EXCEPT ![r] = "svg_pixmap"]
       ELSE /\ out' = [out EXCEPT ![r] = Err([type |-> "Usvg"])]
            /\ pc' = [pc EXCEPT ![r] = "done"]
    /\ work' = [work EXCEPT ![r] = @ \cup {"svg_parse"}]
    /\ UNCHANGED <<imgVars, assets, lock, op, arg, bytes, hit, status>>

\* render_pixmap: ratio = size.width / tree.size().width(); the pixmap is
\* (tree width * ratio) as u32 by (tree height * ratio) as u32.
PixmapSize(ts, z) == Size((ts.width * z.width) \div ts.width, (ts.height * z.width) \div ts.width)

\* self.render_pixmap(&tree, ..)?: Pixmap::new(..).unwrap(), resvg::render;
\* then one alpha byte per pixel.
SvgPixmap(r) ==
    /\ pc[r] = "svg_pixmap"
    /\ LET pz == PixmapSize(out[r].tree, arg[r].size)
       IN IF PixmapNewOk(pz)
          THEN /\ out' = [out EXCEPT ![r] = Ok([kind |-> "AlphaMask", len |-> pz.width * pz.height])]
               /\ pc' = [pc EXCEPT ![r] = "done"]
               /\ work' = [work EXCEPT ![r] = @ \cup {"rasterize"}]
          ELSE /\ pc' = [pc EXCEPT ![r] = "panicked"]
               /\ UNCHANGED <<out, work>>
    /\ UNCHANGED <<imgVars, assets, lock, op, arg, bytes, hit, status>>

\* ---------------------------------------------------- ImageSource::data
\* ImageSource: Uri | File | Data | Surface
ImageDatas == {"image_1", "image_2"}
ImageSources ==
    {[tag |-> "Uri", source |-> UriA], [tag |-> "File", source |-> PathA], [tag |-> "Surface"]}
    \cup {[tag |-> "Data", data |-> d] : d \in ImageDatas}

Some(v) == [some |-> v]

\* a Data arm that files the image in the asset cache before returning it
CacheAfterDataMemoized(m, src) == IF src.tag = "Data" THEN MapInsert(m, <<"RasterOrVector", 0>>, Ok(Raster(src.data))) ELSE m
\* ImageSource::Data(data) => Some(data.to_owned()); Surface(_) => None
CacheAfterData(m, src) == m

\* self.data(bounds, cx): Uri and File resolve to a UriOrPath and go to
\* the RasterOrVector producer; Data hands back its image; Surface nothing.
SourceData(r, src) ==
    /\ pc[r] = "idle"
    /\ IF src.tag \in {"Uri", "File"}
       THEN /\ op' = [op EXCEPT ![r] = "rov_load"]
            /\ pc' = [pc EXCEPT ![r] = "probe"]
            /\ arg' = [arg EXCEPT ![r] = src.source]
            /\ UNCHANGED <<assets, out>>
       ELSE /\ op' = [op EXCEPT ![r] = "source_data"]
            /\ pc' = [pc EXCEPT ![r] = "done"]
            /\ arg' = [arg EXCEPT ![r] = src]
            /\ out' = [out EXCEPT ![r] = IF src.tag = "Data" THEN Some(src.data) ELSE NoValue]
            /\ assets' = CacheAfterData(assets, src)
    /\ UNCHANGED <<imgVars, lock, bytes, hit, work, status>>

\* The caller is finished with the result; the slot is free again.
Release(r) ==
    /\ pc[r] \in {"done", "panicked"}
    /\ op' = [op EXCEPT ![r] = "none"]
    /\ pc' = [pc EXCEPT ![r] = "idle"]
    /\ arg' = [arg EXCEPT ![r] = NoArg]
    /\ bytes' = [bytes EXCEPT ![r] = ""]
    /\ out' = [out EXCEPT ![r] = NoValue]
    /\ hit' = [hit EXCEPT ![r] = FALSE]
    /\ work' = [work EXCEPT ![r] = {}]
    /\ status' = [status EXCEPT ![r] = 0]
    /\ UNCHANGED <<imgVars, assets, lock>>

\* The steps of a RasterOrVector::load already started.
RovSteps ==
    \/ \E r \in Slots : ProbeLock(r)
    \/ \E r \in Slots : Probe(r)
    \/ \E r \in Slots : FetchFail(r)
    \/ \E r \in Slots : FetchDecode(r)
    \/ \E r \in Slots : InsertLock(r)
    \/ \E r \in Slots : Insert(r)
    \/ \E r \in Slots : Release(r)

RemoveSteps ==
    \/ \E r \in Slots : RemoveLock(r)
    \/ \E r \in Slots : Remove(r)

ImageSteps ==
    \/ \E r \in Slots : ImgLock(r)
    \/ \E r \in Slots : ImgLookup(r)
    \/ \E r \in Slots : ImgInsert(r)
    \/ \E t \in TaskIds : TaskFail(t)
    \/ \E t \in TaskIds : TaskDecode(t)

\* The whole system on one remote source and the trees parsed from it.
FewSources == {UriA}
FewKeys == {VectorKey(s, z) : s \in FewSources, z \in Sizes}

Next ==
    \/ \E r \in Slots, s \in FewSources : StartLoad(r, "RasterOrVector", s)
    \/ \E r \in Slots, k \in FewKeys : StartLoad(r, "Vector", k)
    \/ \E r \in Slots, s \in FewSources : StartRemove(r, "RasterOrVector", s)
    \/ \E r \in Slots, k \in FewKeys : StartRemove(r, "Vector", k)
    \/ \E r \in Slots, s \in FewSources : StartGet(r, s)
    \/ RovSteps
    \/ \E r \in Slots : Rasterize(r)
    \/ RemoveSteps
    \/ ImageSteps

Spec == Init /\ [][Next]_vars

\* RasterOrVector::load on every source, with no invalidation.
NextRov ==
    \/ \E r \in Slots, s \in Sources : StartLoad(r, "RasterOrVector", s)
    \/ RovSteps

SpecRov == Init /\ [][NextRov]_vars

\* ImageCache alone, on one remote and one local source.
ImgSources == {UriA, PathA}

NextImage ==
    \/ \E r \in Slots, s \in ImgSources : StartGet(r, s)
    \/ \E r \in Slots : Release(r)
    \/ ImageSteps

SpecImage == Init /\ [][NextImage]_vars

\* The background executor runs every task it holds, and a thread inside
\* ImageCache::get runs on to its return.
FairImage ==
    /\ \A t \in TaskIds : WF_vars(TaskFail(t) \/ TaskDecode(t))
    /\ \A r \in Slots : WF_vars(ImgLookup(r) \/ ImgInsert(r))

SpecImageFair == SpecImage /\ FairImage

\* ObjectFit::get_bounds on every fit, box and image size.
NextFit ==
    \/ \E fit \in Fits, b \in Boxes, i \in ImageSizes : StartGetBounds(MainThread, fit, b, i)
    \/ GetBounds(MainThread)
    \/ Release(MainThread)

SpecFit == Init /\ [][NextFit]_vars

\* SvgRenderer::render on every path and target size.
NextSvg ==
    \/ \E r \in Slots, path \in SvgPaths, z \in Sizes : StartRender(r, RenderSvgParams(path, z))
    \/ \E r \in Slots : SvgCheck(r)
    \/ \E r \in Slots : SvgLoad(r)
    \/ \E r \in Slots : SvgTree(r)
    \/ \E r \in Slots : SvgPixmap(r)
    \/ \E r \in Slots : Release(r)

SpecSvg == Init /\ [][NextSvg]_vars

\* ImageSource::data on every kind of source, with the loads it starts.
NextData ==
    \/ \E r \in Slots, src \in ImageSources : SourceData(r, src)
    \/ RovSteps

SpecData == Init /\ [][NextData]_vars

\* Vector::load on the trees of two sources, in both revisions, with no
\* invalidation.
TreeSources == {UriA, UriB}
TreeKeys == UNION {{TreeKey(s, d, z) : d \in TreesOf(s), z \in Sizes} : s \in TreeSources}

NextVec ==
    \/ \E r \in Slots, k \in TreeKeys : StartLoad(r, "Vector", k)
    \/ \E r \in Slots : ProbeLock(r)
    \/ \E r \in Slots : Probe(r)
    \/ \E r \in Slots : Rasterize(r)
    \/ \E r \in Slots : InsertLock(r)
    \/ \E r \in Slots : Insert(r)
    \/ \E r \in Slots : Release(r)

SpecVec == Init /\ [][NextVec]_vars

\* ---------------------------------------------------------------- claims
IsLoad(r) == op[r] \in {"rov_load", "vec_load"}
KeyOf(r) == CacheKey(KindOf(op[r]), arg[r])
\* Slot r takes its probe step: the cache is observed.
ProbeStep(r) == IsLoad(r) /\ pc[r] = "probing" /\ pc'[r] # "probing"
\* The loads for r's (kind, source) that ran their own fetch and decode and
\* have resolved.
Settled(r) == {q \in Slots \ {r} : op[q] = op[r] /\ arg[q] = arg[r] /\ pc[q] = "done" /\ ~hit[q]}

\* C1: dedup.  A load that observes the cache after another load for the
\* same (kind, source) has resolved runs no fetch+decode of its own, and
\* resolves to the Output the earlier one resolved to.
C1_Dedup == [][\A r \in Slots : (ProbeStep(r) /\ Settled(r) # {}) => (hit'[r] /\ \A q \in Settled(r) : out'[r] = out[q])]_vars

\* C2: publish before resolve.  A load that missed the cache and has
\* resolved, with a success or with a failure, has inserted its result
\* under its key.
C2_PublishBeforeResolve == \A r \in Slots : (IsLoad(r) /\ pc[r] = "done" /\ ~hit[r]) => "publish" \in work[r]

\* ---------------------------------------------------------------- C3
\* The task cached for source s has resolved to an error.
FailedKey(s) == s \in DOMAIN images /\ tasks[images[s]].st = "done" /\ ~tasks[images[s]].out.ok
\* The tasks ever spawned for source s.
TasksFor(s) == {t \in TaskIds : tasks[t].st # "unused" /\ tasks[t].src = s}
\* Slot r takes the lookup step of ImageCache::get.
ImgLookupStep(r) == op[r] = "img_get" /\ pc[r] = "img_lookup" /\ pc'[r] # "img_lookup"

\* C3: a failure is cached like a success.  Once the task cached for a
\* key has resolved to an error, the entry and the error stay as they are,
\* every get of the key returns that task, and no task is spawned for the
\* key again.
C3_FailureCached ==
    [][\A s \in Sources : FailedKey(s) =>
          /\ s \in DOMAIN images'
          /\ images'[s] = images[s]
          /\ tasks'[images[s]] = tasks[images[s]]
          /\ TasksFor(s)' = TasksFor(s)
          /\ \A r \in Slots : (ImgLookupStep(r) /\ arg[r] = s) => (out'[r] = Handle(images[s]) /\ pc'[r] = "done")]_vars

\* A get has returned the cached task of a key whose fetch failed.
C3_Witness == \E r \in Slots : op[r] = "img_get" /\ pc[r] = "done" /\ hit[r] /\ FailedKey(arg[r]) /\ out[r] = Handle(images[arg[r]])

\* ---------------------------------------------------------------- C4
\* The asset kind a cached value belongs to.
KindOfOutput(v) == IF "ok" \in DOMAIN v THEN v.val.kind ELSE v.kind

\* C4: kind isolation.  Every entry sits under the kind it was inserted
\* for, and a load that hit resolved to an Output of its own kind, also
\* when sources of the two kinds have the same hash.
C4_KindIsolation ==
    /\ \A k \in DOMAIN assets : KindOfOutput(assets[k]) = k[1]
    /\ \A r \in Slots : (IsLoad(r) /\ hit[r]) => KindOfOutput(out[r]) = KindOf(op[r])

\* Two entries of different kinds under one hash, and a load that hit one.
C4_Witness ==
    \E h \in 0..(HashMod - 1) :
        /\ <<"RasterOrVector", h>> \in DOMAIN assets
        /\ <<"Vector", h>> \in DOMAIN assets
        /\ \E r \in Slots : IsLoad(r) /\ hit[r] /\ pc[r] = "done" /\ KeyOf(r)[2] = h

\* ---------------------------------------------------------------- C5
\* Slot r takes the insert step of a load.
InsertStep(r) == IsLoad(r) /\ pc[r] = "inserting" /\ pc'[r] # "inserting"

\* C5: insert is idempotent and the last writer wins.  An insert leaves
\* its own value under the key, adds the key only if it was absent and
\* touches no other entry; a get that finds the key returns that value.
C5_LastWriterWins ==
    [][\A r \in Slots :
          /\ InsertStep(r) =>
                /\ MapGet(assets', KeyOf(r)) = out[r]
                /\ DOMAIN assets' = DOMAIN assets \cup {KeyOf(r)}
                /\ \A k \in DOMAIN assets \ {KeyOf(r)} : assets'[k] = assets[k]
          /\ (ProbeStep(r) /\ hit'[r]) => out'[r] = MapGet(assets, KeyOf(r))]_vars

\* Two loads have inserted different values under one key; the map holds
\* the later one.
C5_Witness ==
    \E r, q \in Slots :
        /\ r # q /\ IsLoad(r) /\ IsLoad(q) /\ KeyOf(r) = KeyOf(q)
        /\ pc[r] = "done" /\ pc[q] = "done"
        /\ "publish" \in work[r] /\ "publish" \in work[q]
        /\ out[r] # out[q]
        /\ MapGet(assets, KeyOf(r)) = out[r]

\* ---------------------------------------------------------------- C6
\* C6: get is a pure lookup.  The probe returns the entry under
\* (kind, hash(source)) when there is one and nothing otherwise, and leaves
\* the map as it was.
C6_GetIsPure ==
    [][\A r \in Slots : ProbeStep(r) =>
          /\ assets' = assets
          /\ IF KeyOf(r) \in DOMAIN assets
             THEN hit'[r] /\ out'[r] = assets[KeyOf(r)]
             ELSE ~hit'[r] /\ out'[r] = out[r]]_vars

\* One load has hit an entry that is still there, another has missed.
C6_Witness ==
    \E r, q \in Slots :
        /\ IsLoad(r) /\ pc[r] = "done" /\ hit[r] /\ MapGet(assets, KeyOf(r)) = out[r]
        /\ IsLoad(q) /\ pc[q] \in {"fetch", "rasterize"} /\ KeyOf(q) \notin DOMAIN assets

\* ---------------------------------------------------------------- C7
IsRemove(r) == op[r] \in {"rov_remove", "vec_remove"}
\* Slot r takes the remove step of remove_from_cache.
RemoveStep(r) == IsRemove(r) /\ pc[r] = "removing" /\ pc'[r] # "removing"

\* C7: removal.  A remove leaves no entry under its key and does not touch
\* what any other request holds; a key that is absent stays absent until a
\* load inserts it; a probe of an absent key finds nothing.
C7_Removal ==
    [][/\ \A r \in Slots : RemoveStep(r) =>
             /\ KeyOf(r) \notin DOMAIN assets'
             /\ \A q \in Slots \ {r} : out'[q] = out[q] /\ pc'[q] = pc[q]
       /\ \A k \in (DOMAIN assets') \ (DOMAIN assets) : \E r \in Slots : InsertStep(r) /\ KeyOf(r) = k
       /\ \A r \in Slots : (ProbeStep(r) /\ KeyOf(r) \notin DOMAIN assets) => ~hit'[r]]_vars

\* An entry was removed while another request holds the value it cloned
\* from it.
C7_Witness ==
    \E r, q \in Slots :
        /\ IsRemove(r) /\ pc[r] = "done" /\ out[r] # NoValue
        /\ IsLoad(q) /\ pc[q] = "done" /\ hit[q] /\ out[q] = out[r]
        /\ KindOf(op[q]) = KindOf(op[r]) /\ arg[q] = arg[r]
        /\ KeyOf(r) \notin DOMAIN assets

\* ---------------------------------------------------------------- C8
\* C8: a cache hit schedules no work.  A probe that finds an entry returns
\* it and ends the request: no fetch, decode, parse or rasterization has
\* run for it and no task is spawned.
C8_HitSchedulesNoWork ==
    /\ [](\A r \in Slots : (pc[r] = "done" /\ hit[r]) => work[r] = {})
    /\ [][\A r \in Slots :
             /\ (ProbeStep(r) /\ KeyOf(r) \in DOMAIN assets) =>
                   (pc'[r] = "done" /\ hit'[r] /\ out'[r] = assets[KeyOf(r)] /\ tasks' = tasks)
             /\ (ImgLookupStep(r) /\ arg[r] \in DOMAIN images) =>
                   (pc'[r] = "done" /\ hit'[r] /\ out'[r] = Handle(images[arg[r]]) /\ tasks' = tasks)]_vars

\* A load and an ImageCache::get have both returned from a hit.
C8_Witness ==
    \E r, q \in Slots :
        /\ IsLoad(r) /\ pc[r] = "done" /\ hit[r] /\ work[r] = {}
        /\ op[q] = "img_get" /\ pc[q] = "done" /\ hit[q] /\ work[q] = {}

\* ---------------------------------------------------------------- C9
Running(t) == tasks[t].st = "running"

\* C9 as stated: while a background task executes its body, the lock is
\* not held on its behalf; here, by the get call that spawned it.
C9_NoLockWhileTaskRuns ==
    [][\A t \in TaskIds : (Running(t) /\ tasks'[t] # tasks[t]) => ~(imgLock # 0 /\ out[imgLock] = Handle(t))]_vars

\* C9, amended: a request that runs fetch, decode or rasterization does not
\* hold a lock, and a lock is held only by a caller that is at a map
\* operation: the one read or write of AssetCache, or the lookup, spawn and
\* insert of one ImageCache::get call.
C9_LockDiscipline ==
    /\ \A r \in Slots : pc[r] \in {"fetch", "rasterize"} => (lock # r /\ imgLock # r)
    /\ lock # 0 => pc[lock] \in {"probing", "inserting", "removing"}
    /\ imgLock # 0 => pc[imgLock] \in {"img_lookup", "img_insert"}

\* A load is fetching while another request holds the AssetCache lock.
C9_Witness ==
    \E r, q \in Slots : pc[r] = "fetch" /\ lock = q /\ q # r

\* --------------------------------------------------------------- C10
\* C10: no cancellation by drop.  A task that was started completes, and
\* its result is then what a lookup of its key finds, whatever the callers
\* do with their clones.
C10_RunsToCompletion ==
    \A t \in TaskIds : Running(t) ~> (tasks[t].st = "done" /\ tasks[t].src \in DOMAIN images /\ images[tasks[t].src] = t)

\* A task is still running, the map holds it, and no caller holds a clone.
C10_Witness == \E t \in TaskIds : Running(t) /\ Stored(t) /\ Holders(t) = {}

IsFit(r, f) == op[r] = "get_bounds" /\ pc[r] = "done" /\ arg[r].fit = f
PxLe(a, b) == ~PxGt(a, b)
\* Rectangle o has the aspect ratio of device size i.
SameAspect(o, i) == o.size.width.num * o.size.height.den * i.height = o.size.height.num * o.size.width.den * i.width
\* The far edges of a rectangle.
Right(b) == PxAdd(b.origin.x, b.size.width)
Bottom(b) == PxAdd(b.origin.y, b.size.height)
\* Rectangle o lies within rectangle b.
Within(o, b) ==
    /\ PxLe(b.origin.x, o.origin.x) /\ PxLe(Right(o), Right(b))
    /\ PxLe(b.origin.y, o.origin.y) /\ PxLe(Bottom(o), Bottom(b))
\* Rectangle o leaves the same margin on both sides of b, on both axes.
CenteredIn(o, b) ==
    /\ PxSub(o.origin.x, b.origin.x) = PxSub(Right(b), Right(o))
    /\ PxSub(o.origin.y, b.origin.y) = PxSub(Bottom(b), Bottom(o))
\* Rectangle o matches b on one axis.
TouchesAxis(o, b) == o.size.width = b.size.width \/ o.size.height = b.size.height
\* The origin of o relative to the origin of b.
RelOrigin(o, b) == point(PxSub(o.origin.x, b.origin.x), PxSub(o.origin.y, b.origin.y))
IsBox(b, w, h) == b.size = size(Px(w, 1), Px(h, 1))

\* C12: Contain.  The result has the image's aspect ratio, lies within the
\* box, equals the box on one axis and is centered on both; box 200x100
\* with image 100x100 gives 100x100 at (50, 0) relative to the box.
C12_Contain ==
    \A r \in Slots : IsFit(r, "Contain") =>
        LET b == arg[r].bounds
            i == arg[r].image_size
            o == out[r]
        IN /\ SameAspect(o, i) /\ Within(o, b) /\ TouchesAxis(o, b) /\ CenteredIn(o, b)
           /\ (IsBox(b, 200, 100) /\ i = Size(100, 100)) =>
                 (IsBox(o, 100, 100) /\ RelOrigin(o, b) = point(Px(50, 1), Px(0, 1)))

\* Contain has returned for box 200x100 and image 100x100.
C12_Witness ==
    \E r \in Slots : IsFit(r, "Contain") /\ IsBox(arg[r].bounds, 200, 100) /\ arg[r].image_size = Size(100, 100)

\* The properties of Cover that do not depend on the example.
CoverShape(r) ==
    LET b == arg[r].bounds
        i == arg[r].image_size
        o == out[r]
    IN SameAspect(o, i) /\ Within(b, o) /\ TouchesAxis(o, b) /\ CenteredIn(o, b)

\* C13 as stated: Cover is centered, has the image's aspect ratio and
\* covers the box; box 100x200 with image 100x100 gives 200x200 at (0, -50)
\* relative to the box.
C13_CoverAsStated ==
    \A r \in Slots : IsFit(r, "Cover") =>
        /\ CoverShape(r)
        /\ (IsBox(arg[r].bounds, 100, 200) /\ arg[r].image_size = Size(100, 100)) =>
              (IsBox(out[r], 200, 200) /\ RelOrigin(out[r], arg[r].bounds) = point(Px(0, 1), Px(-50, 1)))

\* C13, amended: as stated, but box 100x200 with image 100x100 gives
\* 200x200 at (-50, 0) relative to the box: the overflow is horizontal.
C13_Cover ==
    \A r \in Slots : IsFit(r, "Cover") =>
        /\ CoverShape(r)
        /\ (IsBox(arg[r].bounds, 100, 200) /\ arg[r].image_size = Size(100, 100)) =>
              (IsBox(out[r], 200, 200) /\ RelOrigin(out[r], arg[r].bounds) = point(Px(-50, 1), Px(0, 1)))

\* Cover has returned for box 100x200 and image 100x100.
C13_Witness ==
    \E r \in Slots : IsFit(r, "Cover") /\ IsBox(arg[r].bounds, 100, 200) /\ arg[r].image_size = Size(100, 100)

\* The box of call r is wider than its image / as wide as its image.
WiderBox(r) == arg[r].bounds.size.width.num * arg[r].bounds.size.height.den * arg[r].image_size.height > arg[r].image_size.width * arg[r].bounds.size.height.num * arg[r].bounds.size.width.den
EqualAspect(r) == arg[r].bounds.size.width.num * arg[r].bounds.size.height.den * arg[r].image_size.height = arg[r].image_size.width * arg[r].bounds.size.height.num * arg[r].bounds.size.width.den

\* C14 as stated: Contain and Cover run the branch of the test
\* box_aspect > image_aspect when the box is wider, and also when the two
\* aspect ratios are equal.
C14_TieTakesWiderBranch ==
    \A r \in Slots : (IsFit(r, "Contain") \/ IsFit(r, "Cover")) =>
        ((WiderBox(r) \/ EqualAspect(r)) <=> work[r] = {"wider_branch"})

\* C14, amended: Contain and Cover run the first branch exactly when
\* box_aspect > image_aspect; equal aspect ratios run the other branch,
\* the one of a box that is not wider, with no separate equality case.
C14_TieBreak ==
    \A r \in Slots : (IsFit(r, "Contain") \/ IsFit(r, "Cover")) =>
        /\ WiderBox(r) <=> work[r] = {"wider_branch"}
        /\ ~WiderBox(r) <=> work[r] = {"else_branch"}
        /\ EqualAspect(r) => work[r] = {"else_branch"}

\* Contain and Cover have seen equal aspect ratios on a box that is not
\* a square.
C14_Witness ==
    \E r \in Slots : (IsFit(r, "Contain") \/ IsFit(r, "Cover")) /\ EqualAspect(r) /\ arg[r].bounds.size.width # arg[r].bounds.size.height

\* C15: None.  The result has the origin of the box and the natural size
\* of the image, whatever the size of the box.
C15_None ==
    \A r \in Slots : IsFit(r, "None") =>
        /\ out[r].origin = arg[r].bounds.origin
        /\ out[r].size = size(Px(arg[r].image_size.width, 1), Px(arg[r].image_size.height, 1))

\* None has returned an image that overflows a box away from the origin.
C15_Witness ==
    \E r \in Slots :
        /\ IsFit(r, "None")
        /\ arg[r].bounds.origin # point(Px(0, 1), Px(0, 1))
        /\ PxGt(out[r].size.width, arg[r].bounds.size.width)
        /\ PxGt(out[r].size.height, arg[r].bounds.size.height)

\* --------------------------------------------------------------- C16
IsRender(r) == op[r] = "svg_render"

\* C16: zero-size precondition.  A render whose target size is zero in
\* either dimension returns an error with no load from the byte source, no
\* parse and no rasterization; a render at a size that is non-zero in both
\* goes on to consult the byte source.
C16_ZeroSizeFailsFirst ==
    /\ [](\A r \in Slots : (IsRender(r) /\ (arg[r].size.width = 0 \/ arg[r].size.height = 0)) =>
             /\ pc[r] \in {"svg_check", "done"}
             /\ work[r] = {}
             /\ bytes[r] = ""
             /\ pc[r] = "done" => out[r] = Err([type |-> "ZeroSize"]))
    /\ [](\A r \in Slots : (IsRender(r) /\ arg[r].size.width # 0 /\ arg[r].size.height # 0 /\ pc[r] \in {"done", "panicked"}) =>
             "load" \in work[r])
    /\ [][\A r \in Slots : (IsRender(r) /\ pc[r] = "svg_check" /\ pc'[r] # "svg_check") =>
             (pc'[r] = "svg_load" <=> (arg[r].size.width # 0 /\ arg[r].size.height # 0))]_vars

\* One render has failed on a size of zero height while another, at a
\* non-zero size, has run through to its alpha mask.
C16_Witness ==
    \E r, q \in Slots :
        /\ IsRender(r) /\ pc[r] = "done" /\ arg[r].size.height = 0 /\ arg[r].size.width # 0 /\ ~out[r].ok
        /\ IsRender(q) /\ pc[q] = "done" /\ "rasterize" \in work[q]

\* --------------------------------------------------------------- C17
\* A status that was received and is not a success code.
NonSuccess(st) == st # 0 /\ st \notin 200..299
DecodeWork == {"sniff", "raster_decode", "svg_parse", "decode"}

\* C17: a non-success status is an error.  A request for a Uri whose
\* response came with a status that is not a success code has ended with
\* BadStatus carrying that status and the lossy text of the body read, and
\* has run neither the format sniff nor a decode on it, in
\* RasterOrVector::load and in the task of ImageCache::get alike.
C17_BadStatus ==
    /\ \A r \in Slots : (op[r] = "rov_load" /\ NonSuccess(status[r])) =>
          /\ pc[r] = "done"
          /\ out[r] = Err([type |-> "BadStatus", status |-> status[r], body |-> Utf8Lossy(bytes[r])])
          /\ work[r] \cap DecodeWork = {}
    /\ \A t \in TaskIds : NonSuccess(tasks[t].status) =>
          /\ tasks[t].st = "done"
          /\ tasks[t].out = Err([type |-> "BadStatus", status |-> tasks[t].status, body |-> Utf8Lossy(tasks[t].body)])
          /\ tasks[t].work \cap DecodeWork = {}

\* A load got a decodable image with status 404, and a task of ImageCache
\* a body with status 500.
C17_Witness ==
    /\ \E r \in Slots : op[r] = "rov_load" /\ pc[r] = "done" /\ status[r] = 404 /\ bytes[r] = "png"
    /\ \E t \in TaskIds : tasks[t].st = "done" /\ tasks[t].status = 500

\* --------------------------------------------------------------- C18
\* Slot r is a RasterOrVector::load that ran the format sniff on its bytes.
Sniffed(r) == op[r] = "rov_load" /\ "sniff" \in work[r]

\* C18: the sniff precedes the vector parse and raster takes priority.
\* The vector parse runs only on bytes the sniff did not recognize; bytes
\* of a recognized raster format end in a Raster or in an image decode
\* error and are never parsed as a vector; bytes that are neither end in an
\* error.
C18_SniffFirst ==
    \A r \in Slots :
        /\ (op[r] = "rov_load" /\ work[r] \cap {"raster_decode", "svg_parse"} # {}) => Sniffed(r)
        /\ Sniffed(r) =>
              /\ "svg_parse" \in work[r] <=> bytes[r] \in {"svg", "junk"}
              /\ "raster_decode" \in work[r] <=> bytes[r] \in {"png", "truncated_png"}
              /\ bytes[r] = "png" => out[r] = Ok(Raster(arg[r]))
              /\ bytes[r] = "truncated_png" => (out[r] = Err([type |-> "Image"]) /\ pc[r] = "done")
              /\ bytes[r] = "svg" => out[r] = Ok(VectorTree(arg[r]))
              /\ bytes[r] = "junk" => (~out[r].ok /\ pc[r] = "done")

\* One load has ended in an image decode error on bytes with a raster
\* signature, another in an error on bytes that are neither.
C18_Witness ==
    \E r, q \in Slots :
        /\ Sniffed(r) /\ bytes[r] = "truncated_png" /\ pc[r] = "done"
        /\ Sniffed(q) /\ bytes[q] = "junk" /\ pc[q] = "done"

\* --------------------------------------------------------------- C19
\* Slot r takes the step of ImageSource::data on a Data or Surface source.
DataStep(r) == pc[r] = "idle" /\ op'[r] = "source_data"

\* C19: Data and Surface bypass the cache.  ImageSource::data returns the
\* image of a Data source and nothing for a Surface source, at once, with
\* no lookup, no insert and no load: the cache map and its lock are as
\* they were and no work was run for the call.
C19_DataBypassesCache ==
    /\ [](\A r \in Slots : op[r] = "source_data" => (pc[r] = "done" /\ work[r] = {} /\ ~hit[r] /\ lock # r))
    /\ [][\A r \in Slots : DataStep(r) =>
             /\ assets' = assets /\ lock' = lock /\ images' = images /\ tasks' = tasks
             /\ arg'[r].tag = "Data" => out'[r] = [some |-> arg'[r].data]
             /\ arg'[r].tag = "Surface" => out'[r] = NoValue]_vars

\* Data has returned its image while the cache holds an entry, and while
\* another request is inside the cache.
C19_Witness ==
    \E r, q \in Slots :
        /\ op[r] = "source_data" /\ arg[r].tag = "Data" /\ out[r] = [some |-> "image_2"]
        /\ op[q] = "rov_load" /\ lock = q
        /\ DOMAIN assets # {}

\* --------------------------------------------------------------- C20
\* Vector::load q has rasterized and published.
Published(q) == op[q] = "vec_load" /\ pc[q] = "done" /\ "publish" \in work[q]
SameIdAndSize(r, q) == arg[r].id = arg[q].id /\ arg[r].size = arg[q].size
\* The fingerprint that comes with tree d, and the hash of (id, size).
TreeId(d) == HashSource([tag |-> d.tag, name |-> d.name])
IdSizeHash(id, z) == Mix(Mix(Mix(0, id), z.width), z.height)

\* C20: vector rasterization is keyed on fingerprint and size only.  A
\* Vector::load that probes after another with equal id and equal size has
\* published uses the same entry: it hits, returns what that entry holds
\* and rasterizes nothing, whatever tree its own key carries.  A load is
\* handed pixels of another id or another size only when the two
\* (id, size) hashes collide.
C20_KeyedOnIdAndSize ==
    [][\A r \in Slots : (ProbeStep(r) /\ op[r] = "vec_load") =>
          /\ \A q \in Slots \ {r} : (Published(q) /\ SameIdAndSize(r, q)) =>
                /\ KeyOf(r) = KeyOf(q)
                /\ hit'[r] /\ pc'[r] = "done" /\ work'[r] = {}
                /\ out'[r] = assets[KeyOf(q)]
          /\ (hit'[r] /\ (TreeId(out'[r].tree) # arg[r].id \/ out'[r].size # arg[r].size)) =>
                IdSizeHash(TreeId(out'[r].tree), out'[r].size) = IdSizeHash(arg[r].id, arg[r].size)]_vars

\* A load was handed the pixels of another tree with its own fingerprint and
\* size, published by a load that is still there.
C20_Witness ==
    \E r, q \in Slots :
        /\ op[r] = "vec_load" /\ pc[r] = "done" /\ hit[r]
        /\ Published(q) /\ SameIdAndSize(r, q) /\ arg[r].data # arg[q].data
        /\ out[r] = out[q] /\ out[r].tree # arg[r].data

\* --------------------------------------------------------------- C21
\* Slot r is a Vector::load whose pixel surface cannot be allocated and
\* that did not find its key in the cache.
AllocFails(r) ==
    /\ op[r] = "vec_load" /\ (arg[r].size.width = 0 \/ arg[r].size.height = 0)
    /\ pc[r] \notin {"probe", "probing"} /\ ~hit[r]

\* C21: a failed allocation aborts the request.  A Vector::load whose
\* pixel surface cannot be allocated ends aborted: it resolves to nothing,
\* rasterizes nothing and never reaches the insert, and the step that
\* aborts it leaves the cache and every other request as they were.
C21_AllocFailureAborts ==
    /\ [](\A r \in Slots : AllocFails(r) =>
             (pc[r] \in {"rasterize", "panicked"} /\ out[r] = NoValue /\ work[r] = {}))
    /\ [][\A r \in Slots : (AllocFails(r) /\ pc[r] = "rasterize" /\ pc'[r] # "rasterize") =>
             /\ pc'[r] = "panicked"
             /\ assets' = assets /\ lock' = lock
             /\ \A q \in Slots \ {r} : pc'[q] = pc[q] /\ out'[q] = out[q]]_vars

\* A load at a size of zero width was aborted while the cache holds the
\* entry another load published, and its own key is not in the cache.
C21_Witness ==
    \E r, q \in Slots :
        /\ AllocFails(r) /\ pc[r] = "panicked" /\ arg[r].size.width = 0
        /\ KeyOf(r) \notin DOMAIN assets
        /\ Published(q) /\ MapGet(assets, KeyOf(q)) = out[q]

\* --------------------------------------------------------------- C22
IsGet(r) == op[r] = "img_get"

\* C22: one critical section.  A get that missed holds the lock from its
\* lookup to its insert, so at most one task is ever spawned for a key,
\* the map's entry for the key is that task, and every get of the key
\* that has returned holds a clone of it.
C22_OneTaskPerKey ==
    /\ \A s \in Sources : Cardinality(TasksFor(s)) <= 1
    /\ \A s \in DOMAIN images : TasksFor(s) = {images[s]}
    /\ \A r \in Slots : (IsGet(r) /\ pc[r] = "img_insert") => (imgLock = r /\ TasksFor(arg[r]) = {out[r].task})
    /\ \A r \in Slots : (IsGet(r) /\ pc[r] = "done") => (arg[r] \in DOMAIN images /\ out[r] = Handle(images[arg[r]]))

\* Two gets of one key have returned, one from a miss and one from a hit,
\* with the same task, while the task is still running.
C22_Witness ==
    \E r, q \in Slots :
        /\ IsGet(r) /\ pc[r] = "done" /\ ~hit[r]
        /\ IsGet(q) /\ pc[q] = "done" /\ hit[q]
        /\ arg[r] = arg[q] /\ out[r] = out[q] /\ Running(out[r].task)

\* --------------------------------------------------------------- C23
\* The source a cached RasterOrVector output was inserted for.
InsertedFor(v) == IF v.val.variant = "Raster" THEN v.val.content ELSE v.val.data
\* Slot r is a RasterOrVector::load whose get returned an entry.
GotEntry(r) == op[r] = "rov_load" /\ hit[r]
\* The 64-bit hash of a UriOrPath: the discriminant, then the payload.
SourceHash(s) == Mix(Mix(0, IF s.tag = "Uri" THEN 0 ELSE 1), s.name)

\* C23 as stated: get::<A>(s) returns only an entry that was inserted for
\* a source equal to s.
C23_SourceIdentity == \A r \in Slots : GotEntry(r) => InsertedFor(out[r]) = arg[r]

\* C23, amended: get::<A>(s) returns only an entry that was inserted for a
\* source of kind A with the hash of s; the entry of a different source is
\* returned for s exactly when the two hashes collide.
C23_SameHash ==
    \A r \in Slots : GotEntry(r) =>
        /\ out[r].ok
        /\ InsertedFor(out[r]) \in Sources
        /\ SourceHash(InsertedFor(out[r])) = SourceHash(arg[r])

\* A load was handed the entry of another source with the same hash.
C23_Witness == \E r \in Slots : GotEntry(r) /\ pc[r] = "done" /\ InsertedFor(out[r]) # arg[r]
====
